---- MODULE Spec2Model ----
(***************************************************************************)
(* A model of uplink.py: the retrying JSON fetch (jsonload), the inventory *)
(* partition, the network lookup (get_network) and the two report loops.   *)
(*                                                                         *)
(* JSON values are modelled with their Python type: a scalar is a record   *)
(* [t, v] whose t is "str", "num", "bool" or "null" and whose v is the    *)
(* text str() gives for it; a JSON object is a function from its keys; a   *)
(* JSON array is a sequence.                                               *)
(***************************************************************************)
EXTENDS Integers, Sequences, FiniteSets, TLC

VARIABLES
    pc,           \* position of the main program
    error,        \* the exception or exit message that ended the run, "" if none
    name,         \* organization name (line 95)
    networks,     \* the networks listing (line 98)
    inventory,    \* the inventory listing (line 99)
    appliances,   \* line 100
    devices,      \* line 101
    i,            \* index of the current device in the loop being run
    network,      \* lines 113 / 188
    device_info,  \* lines 116 / 191
    device_name,  \* lines 120-123 / 192-195
    perfscore,    \* lines 124-127
    uplinks,      \* the uplink response of the current device (lines 133 / 198)
    csvline,      \* the last row handed to writer.writerow (lines 144-174 / 208-223)
    written,      \* one entry per writer.writerow call: the report and the device index
    events,       \* jsonload calls, file opens and row writes, in program order
    transport,    \* the behaviour of session.get during one jsonload call
    result        \* what that jsonload call returned or raised

vars == <<pc, error, name, networks, inventory, appliances, devices, i, network,
          device_info, device_name, perfscore, uplinks, csvline, written, events,
          transport, result>>

----------------------------------------------------------------------------
(* Bounds of the model *)

MaxFailures == 4     \* a transport fails at most this many times before it answers
MaxInventory == 2    \* devices in the inventory listing
MaxNetworks == 2     \* records in the networks listing
MaxUplinks == 2      \* entries in one uplink response

----------------------------------------------------------------------------
(* Python values *)

Str(s) == [t |-> "str", v |-> s]
Num(s) == [t |-> "num", v |-> s]
None == [t |-> "null", v |-> "None"]

\* str(x): the text of x, as a string
PyStr(x) == [t |-> "str", v |-> x.v]

Min(a, b) == IF a < b THEN a ELSE b

----------------------------------------------------------------------------
(* jsonload, lines 65-79 *)

Retries == 3

\* the exceptions the except clause of line 75 names
Caught == {"ConnectionError", "RemoteDisconnected", "ProtocolError", "HTTPException"}

\* one session.get(...): it raises, or it returns a response with a text
Raise(e) == [kind |-> "raise", exc |-> e]
Text(body) == [kind |-> "text", text |-> body]

EmptyText == [body |-> "empty"]
Garbage == [body |-> "garbage"]
JsonText(value) == [body |-> "json", value |-> value]

\* len(jsondata): a JSON document has at least the 2 characters of {} or []
TextLen(text) == IF text.body = "empty" THEN 0 ELSE 2

\* the outcome of attempt n: a transport keeps its last behaviour
Attempt(tr, n) == tr[Min(n, Len(tr))]

Returned(value, sleeps, attempts) ==
    [ok |-> TRUE, exc |-> "", value |-> value, sleeps |-> sleeps, attempts |-> attempts]
Raised(exc, sleeps, attempts) ==
    [ok |-> FALSE, exc |-> exc, sleeps |-> sleeps, attempts |-> attempts]

\* json.loads(jsondata), line 79
json_loads(jsondata, sleeps, attempts) ==
    IF jsondata.body = "json"
    THEN Returned(jsondata.value, sleeps, attempts)
    ELSE Raised("JSONDecodeError", sleeps, attempts)

RECURSIVE jsonload_loop(_, _, _, _, _)
jsonload_loop(tr, jsondata, retries, sleeps, attempts) ==
    IF ~(0 < TextLen(jsondata)) /\ 0 < retries
    THEN LET got == Attempt(tr, attempts + 1) IN
         IF got.kind = "raise"
         THEN IF got.exc \in Caught
              THEN jsonload_loop(tr, jsondata, retries - 1, sleeps + 1, attempts + 1)
              ELSE Raised(got.exc, sleeps, attempts + 1)
         ELSE jsonload_loop(tr, got.text, retries - 1, sleeps, attempts + 1)
    ELSE json_loads(jsondata, sleeps, attempts)

jsonload_two(tr) == jsonload_loop(tr, EmptyText, Retries - 1, 0, 0)

jsonload(tr) == jsonload_loop(tr, EmptyText, Retries, 0, 0)

----------------------------------------------------------------------------
(* The data the API serves *)

Bool(s) == [t |-> "bool", v |-> s]
Unset == [t |-> "unset", v |-> ""]

\* model codes, as their characters
MX64 == <<"M", "X", "6", "4">>
Z1 == <<"Z", "1">>
Z3 == <<"Z", "3">>
vMX100 == <<"v", "M", "X", "1", "0", "0">>
MR33 == <<"M", "R", "3", "3">>
MS == <<"M", "S">>
M == <<"M">>
mx64 == <<"m", "x", "6", "4">>
ModelCodes == {MX64, Z1, Z3, vMX100, MR33, MS, M, mx64}

Serials == {"Q2XX-0001", "Q2XX-0002"}
NetworkIds == {Str("N1"), Str("N2"), None}

InventoryDevice(serial, model, networkId) ==
    [serial |-> Str(serial), mac |-> Str("aa:bb"), model |-> Str(model),
     networkId |-> networkId]

\* every device record an inventory listing can hold
AllDevices ==
    {InventoryDevice(s, m, n) : s \in Serials, m \in ModelCodes, n \in {Str("N1"), None}}

\* the devices of the organization the report loops run on
OrgDevices ==
    {InventoryDevice("Q2XX-0001", MX64, n) : n \in NetworkIds}
    \cup {InventoryDevice("Q2XX-0002", MR33, n) : n \in NetworkIds}

\* the arrays of at most max elements of S
Listings(S, max) == UNION {[1..n -> S] : n \in 0..max}

\* those that hold no element twice
Distinct(S, max) ==
    {list \in Listings(S, max) :
        \A a, b \in 1..Len(list) : a # b => list[a] # list[b]}

NetworkRecords ==
    {[id |-> Str("N1"), name |-> Str("HQ"), timeZone |-> Str("Europe/Rome")],
     [id |-> Str("N1"), name |-> Str("Lab"), timeZone |-> Str("UTC")],
     [id |-> Str("N2"), name |-> Str("Branch"), timeZone |-> Str("UTC")]}

OrganizationResponses ==
    {[id |-> Str("1"), name |-> Str("Acme")], [errors |-> Str("not found")]}

\* GET networks/{netId}/devices/{serial}: the name may be missing
DeviceResponses(device) ==
    {[serial |-> device.serial, firmware |-> Str("wired-15-44"),
      lat |-> Num("45.46"), lng |-> Num("9.19"), name |-> Str("gw-hq")],
     [serial |-> device.serial, firmware |-> Str("wired-15-44"),
      lat |-> Num("45.46"), lng |-> Num("9.19")]}

PerformanceResponses ==
    {[perfScore |-> Num("87")], [perfScore |-> None], [errors |-> Str("unsupported")]}

Wan1 ==
    [interface |-> Str("WAN 1"), status |-> Str("Active"), ip |-> Str("10.123.096.228"),
     gateway |-> Str("10.123.96.1"), publicIp |-> Str("1.2.3.4"), dns |-> Str("8.8.8.8"),
     usingStaticIp |-> Bool("True")]
Wan2 == [interface |-> Str("WAN 2"), status |-> Str("Ready"), ip |-> Str("192.168.1.2")]
Cellular ==
    [interface |-> Str("Cellular"), status |-> Str("Ready"), ip |-> Str("100.64.0.2"),
     provider |-> Str("Telco"), publicIp |-> Str("5.6.7.8"), model |-> Str("E3372"),
     connectionType |-> Str("4G")]
Wan3 == [interface |-> Str("WAN 3"), status |-> Str("Active")]
ApplianceUplinks == {Wan1, Wan2, Cellular, Wan3}

Wired ==
    [interface |-> Str("WAN 1"), status |-> Str("Active"), ip |-> Str("10.0.0.7"),
     gateway |-> Str("10.0.0.1"), publicIp |-> Str("1.2.3.4"), dns |-> Str("8.8.8.8"),
     vlan |-> Num("10"), usingStaticIp |-> Bool("False")]
Down == [interface |-> Str("WAN 1"), status |-> Str("Failed")]
DeviceUplinks == {Wired, Down}

----------------------------------------------------------------------------
(* get_network, lines 62-63 *)

Found(value) == [ok |-> TRUE, exc |-> "", value |-> value]
Failed(exc) == [ok |-> FALSE, exc |-> exc]

Matching(network_id, nets) == SelectSeq(nets, LAMBDA element : network_id = element.id)

get_network_last(network_id, nets) ==
    LET found == Matching(network_id, nets) IN
    IF Len(found) = 0 THEN Failed("IndexError") ELSE Found(found[Len(found)])

get_network(network_id, nets) ==
    LET found == Matching(network_id, nets) IN
    IF Len(found) = 0 THEN Failed("IndexError") ELSE Found(found[1])

----------------------------------------------------------------------------
(* The partition of the inventory, lines 100-101 *)

\* model[:2]
FirstTwo(model) == SubSeq(model, 1, Min(2, Len(model)))

AppliancePrefixes == {<<"M", "X">>, <<"Z", "1">>, <<"Z", "3">>, <<"v", "M">>}

Contains(list, x) == \E n \in 1..Len(list) : list[n] = x

Appliances(inv) ==
    SelectSeq(inv, LAMBDA device :
        FirstTwo(device.model.v) \in AppliancePrefixes /\ device.networkId # None)

DevicesAll(inv, apps) == SelectSeq(inv, LAMBDA device : ~Contains(apps, device))

Devices(inv, apps) ==
    SelectSeq(inv, LAMBDA device : ~Contains(apps, device) /\ device.networkId # None)

----------------------------------------------------------------------------
(* The uplink dispatch of the appliance loop, lines 129-143 *)

\* dict.fromkeys(keys): every key bound to None
FromKeys(keys) == [k \in keys |-> None]

WanKeys == {"interface", "status", "ip", "gateway", "publicIp", "dns", "usingStaticIp"}
CellularKeys ==
    {"interface", "status", "ip", "provider", "publicIp", "model", "connectionType"}
DeviceKeys ==
    {"interface", "status", "ip", "gateway", "publicIp", "dns", "vlan", "usingStaticIp"}

EmptyUplinksInfo ==
    [WAN1 |-> FromKeys(WanKeys), WAN2 |-> FromKeys(WanKeys),
     Cellular |-> FromKeys(CellularKeys)]

\* for key in uplink.keys(): bucket[key] = str(uplink[key])
CopyKeys(bucket, uplink) ==
    [k \in DOMAIN bucket \cup DOMAIN uplink |->
        IF k \in DOMAIN uplink THEN PyStr(uplink[k]) ELSE bucket[k]]

DispatchElse(info, uplink) ==
    IF uplink.interface = Str("WAN 2")
    THEN [info EXCEPT !.WAN2 = CopyKeys(@, uplink)]
    ELSE IF uplink.interface = Str("Cellular")
    THEN [info EXCEPT !.Cellular = CopyKeys(@, uplink)]
    ELSE [info EXCEPT !.WAN1 = CopyKeys(@, uplink)]

\* the if / elif / elif of lines 135-143: any other label is dropped
Dispatch(info, uplink) ==
    IF uplink.interface = Str("WAN 1")
    THEN [info EXCEPT !.WAN1 = CopyKeys(@, uplink)]
    ELSE IF uplink.interface = Str("WAN 2")
    THEN [info EXCEPT !.WAN2 = CopyKeys(@, uplink)]
    ELSE IF uplink.interface = Str("Cellular")
    THEN [info EXCEPT !.Cellular = CopyKeys(@, uplink)]
    ELSE info

RECURSIVE DispatchAll(_, _)
DispatchAll(info, list) ==
    IF list = <<>> THEN info ELSE DispatchAll(Dispatch(info, Head(list)), Tail(list))

----------------------------------------------------------------------------
(* The rows, lines 107, 144-174, 182, 208-223 *)

ApplianceFieldnames ==
    <<"TimeZone", "Network", "Device", "Serial", "MAC", "Model", "firmware", "geolocation",
      "WAN1 Status", "WAN1 IP", "WAN1 Gateway", "WAN1 Public IP", "WAN1 DNS", "WAN1 Static",
      "WAN2 Status", "WAN2 IP", "WAN2 Gateway", "WAN2 Public IP", "WAN2 DNS", "WAN2 Static",
      "Cellular Status", "Cellular IP", "Cellular Provider", "Cellular Public IP",
      "Cellular Model", "Cellular Connection", "Performance">>

DeviceFieldnames ==
    <<"TimeZone", "Network", "Device", "Serial", "MAC", "Model", "Status", "IP", "Gateway",
      "Public IP", "DNS", "VLAN", "Static">>

\* "https://www.google.com/maps/@" + str(lat) + "," + str(lng) + ",15z"
Geolocation(info) ==
    Str(<<"https://www.google.com/maps/@", PyStr(info.lat).v, ",", PyStr(info.lng).v, ",15z">>)

\* lines 144-171
ApplianceCsvline(net, network_name, dev_name, appliance, info, uplinks_info) ==
    ("TimeZone" :> PyStr(net.timeZone)) @@ ("Network" :> network_name)
    @@ ("Device" :> dev_name) @@ ("Serial" :> appliance.serial)
    @@ ("MAC" :> appliance.mac) @@ ("Model" :> appliance.model)
    @@ ("firmware" :> info.firmware) @@ ("geolocation" :> Geolocation(info))
    @@ ("WAN1 Status" :> uplinks_info.WAN1["status"])
    @@ ("WAN1 IP" :> uplinks_info.WAN1["ip"])
    @@ ("WAN1 Gateway" :> uplinks_info.WAN1["gateway"])
    @@ ("WAN1 Public IP" :> uplinks_info.WAN1["publicIp"])
    @@ ("WAN1 DNS" :> uplinks_info.WAN1["dns"])
    @@ ("WAN1 Static" :> uplinks_info.WAN1["usingStaticIp"])
    @@ ("WAN2 Status" :> uplinks_info.WAN2["status"])
    @@ ("WAN2 IP" :> uplinks_info.WAN2["ip"])
    @@ ("WAN2 Gateway" :> uplinks_info.WAN2["gateway"])
    @@ ("WAN2 Public IP" :> uplinks_info.WAN2["publicIp"])
    @@ ("WAN2 DNS" :> uplinks_info.WAN2["dns"])
    @@ ("WAN2 Static" :> uplinks_info.WAN2["usingStaticIp"])
    @@ ("Cellular Status" :> uplinks_info.Cellular["status"])
    @@ ("Cellular IP" :> uplinks_info.Cellular["ip"])
    @@ ("Cellular Provider" :> uplinks_info.Cellular["provider"])
    @@ ("Cellular Public IP" :> uplinks_info.Cellular["publicIp"])
    @@ ("Cellular Model" :> uplinks_info.Cellular["model"])
    @@ ("Cellular Connection" :> uplinks_info.Cellular["connectionType"])

\* lines 172-173
WithPerformance(line, score) ==
    IF score # None THEN line @@ ("Performance" :> score) ELSE line

\* lines 208-222
DeviceCsvline(net, network_name, dev_name, device, uplink_info) ==
    ("TimeZone" :> PyStr(net.timeZone)) @@ ("Network" :> network_name)
    @@ ("Device" :> dev_name) @@ ("Serial" :> device.serial)
    @@ ("MAC" :> device.mac) @@ ("Model" :> device.model)
    @@ ("Status" :> uplink_info["status"]) @@ ("IP" :> uplink_info["ip"])
    @@ ("Gateway" :> uplink_info["gateway"]) @@ ("Public IP" :> uplink_info["publicIp"])
    @@ ("DNS" :> uplink_info["dns"]) @@ ("VLAN" :> uplink_info["vlan"])
    @@ ("Static" :> uplink_info["usingStaticIp"])

\* what csv.DictWriter(..., restval='') writes for a row: one text per fieldname, in
\* order; a key the row lacks gives restval, None gives the empty text
Emit(fieldnames, rowdict) ==
    [n \in 1..Len(fieldnames) |->
        IF fieldnames[n] \notin DOMAIN rowdict THEN ""
        ELSE IF rowdict[fieldnames[n]].t = "null" THEN ""
        ELSE rowdict[fieldnames[n]].v]

\* "name" if the detail has one, else "serial": lines 120-123, 192-195
DeviceName(info) == IF "name" \in DOMAIN info THEN info.name ELSE info.serial

----------------------------------------------------------------------------
(* The main program, lines 81-224 *)

NoRecord == [unset |-> TRUE]
NoRow == <<>>
NoResult == [ok |-> FALSE, exc |-> "not called", sleeps |-> 0, attempts |-> 0]
ExitMessage == "Incorrect API key or org ID, as no valid data returned"

Event(op, what, idx) == [op |-> op, what |-> what, idx |-> idx]

\* whether a jsonload call returned, and what it raised if not
Outcome(r) == [ok |-> r.ok, exc |-> r.exc]

\* the behaviours of session.get during one jsonload call whose endpoint can answer
\* with any of `values`: it answers at once, it answers after a dropped connection
\* and an empty body, or it never gives a JSON document
Transports(values) ==
    {<<Text(JsonText(v))>> : v \in values}
    \cup {<<Raise("RemoteDisconnected"), Text(EmptyText), Text(JsonText(v))>> : v \in values}
    \cup {<<Raise("ConnectionError")>>, <<Raise("ReadTimeout")>>, <<Text(Garbage)>>,
          <<Text(EmptyText)>>}

OrganizationTransports == Transports(OrganizationResponses)
NetworksTransports == Transports(Distinct(NetworkRecords, MaxNetworks))
InventoryTransports == Transports(Distinct(OrgDevices, MaxInventory))
PerformanceTransports == Transports(PerformanceResponses)
ApplianceUplinkTransports == Transports(Distinct(ApplianceUplinks, MaxUplinks))
DeviceUplinkTransports == Transports(Distinct(DeviceUplinks, MaxUplinks))

\* before the program has assigned anything
Unassigned ==
    /\ error = ""
    /\ name = Unset
    /\ networks = <<>>
    /\ appliances = <<>>
    /\ devices = <<>>
    /\ i = 0
    /\ network = NoRecord
    /\ device_info = NoRecord
    /\ device_name = Unset
    /\ perfscore = Unset
    /\ uplinks = <<>>
    /\ csvline = NoRow
    /\ written = <<>>
    /\ events = <<>>
    /\ result = NoResult

Init ==
    /\ pc = "organization"
    /\ inventory = <<>>
    /\ transport = <<>>
    /\ Unassigned

\* an uncaught exception ends the run
Abort(exc) ==
    /\ pc' = "abort"
    /\ error' = exc

OrganizationUngated ==
    /\ pc = "organization"
    /\ \E tr \in OrganizationTransports :
        LET r == jsonload(tr) IN
        /\ events' = Append(events, Event("get", "organization", 0))
        /\ result' = Outcome(r)
        /\ name' = IF r.ok /\ "name" \in DOMAIN r.value THEN r.value.name ELSE name
        /\ pc' = "networks"
    /\ UNCHANGED <<error, networks, inventory, appliances, devices, i, network,
                   device_info, device_name, perfscore, uplinks, csvline, written,
                   transport>>

\* lines 94-97
Organization ==
    /\ pc = "organization"
    /\ \E tr \in OrganizationTransports :
        LET r == jsonload(tr) IN
        /\ events' = Append(events, Event("get", "organization", 0))
        /\ result' = Outcome(r)
        /\ IF r.ok /\ "name" \in DOMAIN r.value
           THEN /\ name' = r.value.name
                /\ pc' = "networks"
                /\ error' = error
           ELSE /\ name' = name
                /\ pc' = "exit"
                /\ error' = ExitMessage
    /\ UNCHANGED <<networks, inventory, appliances, devices, i, network, device_info,
                   device_name, perfscore, uplinks, csvline, written, transport>>

\* line 98
Networks ==
    /\ pc = "networks"
    /\ \E tr \in NetworksTransports :
        LET r == jsonload(tr) IN
        /\ events' = Append(events, Event("get", "networks", 0))
        /\ result' = Outcome(r)
        /\ IF r.ok
           THEN /\ networks' = r.value
                /\ pc' = "inventory"
                /\ error' = error
           ELSE /\ networks' = networks
                /\ Abort(r.exc)
    /\ UNCHANGED <<name, inventory, appliances, devices, i, network, device_info,
                   device_name, perfscore, uplinks, csvline, written, transport>>

\* lines 99-101
Inventory ==
    /\ pc = "inventory"
    /\ \E tr \in InventoryTransports :
        LET r == jsonload(tr) IN
        /\ events' = Append(events, Event("get", "inventory", 0))
        /\ result' = Outcome(r)
        /\ IF r.ok
           THEN /\ inventory' = r.value
                /\ appliances' = Appliances(r.value)
                /\ devices' = Devices(r.value, Appliances(r.value))
                /\ pc' = "open_appliances"
                /\ error' = error
           ELSE /\ UNCHANGED <<inventory, appliances, devices>>
                /\ Abort(r.exc)
    /\ UNCHANGED <<name, networks, i, network, device_info, device_name, perfscore,
                   uplinks, csvline, written, transport>>

\* lines 105-109
OpenAppliances ==
    /\ pc = "open_appliances"
    /\ events' = Append(events, Event("open", "appliances", 0))
    /\ i' = 0
    /\ pc' = "for_appliance"
    /\ UNCHANGED <<error, name, networks, inventory, appliances, devices, network,
                   device_info, device_name, perfscore, uplinks, csvline, written,
                   transport, result>>

\* The variables a loop body binds are not read again once the body has run: the loop
\* head forgets them.
Forget ==
    /\ network' = NoRecord
    /\ device_info' = NoRecord
    /\ device_name' = Unset
    /\ perfscore' = Unset
    /\ uplinks' = <<>>
    /\ csvline' = NoRow

\* line 112: the next appliance, or the end of the loop
ForAppliance ==
    /\ pc = "for_appliance"
    /\ Forget
    /\ IF i < Len(appliances)
       THEN /\ i' = i + 1
            /\ pc' = "appliance_info"
       ELSE /\ i' = i
            /\ pc' = "open_devices"
    /\ UNCHANGED <<error, name, networks, inventory, appliances, devices, written,
                   events, transport, result>>

\* lines 113-123
ApplianceInfo ==
    /\ pc = "appliance_info"
    /\ LET appliance == appliances[i]
           found == get_network(appliance.networkId, networks)
       IN
       IF ~found.ok
       THEN /\ Abort(found.exc)
            /\ UNCHANGED <<network, device_info, device_name, events, result>>
       ELSE /\ network' = found.value
            /\ \E tr \in Transports(DeviceResponses(appliance)) :
                LET r == jsonload(tr) IN
                /\ events' = Append(events, Event("get", "device", i))
                /\ result' = Outcome(r)
                /\ IF r.ok
                   THEN /\ device_info' = r.value
                        /\ device_name' = DeviceName(r.value)
                        /\ pc' = "appliance_performance"
                        /\ error' = error
                   ELSE /\ UNCHANGED <<device_info, device_name>>
                        /\ Abort(r.exc)
    /\ UNCHANGED <<name, networks, inventory, appliances, devices, i, perfscore, uplinks,
                   csvline, written, transport>>

\* the try / except of lines 124-127
Perfscore(r) == IF r.ok /\ "perfScore" \in DOMAIN r.value THEN r.value.perfScore ELSE None

AppliancePerformanceUncaught ==
    /\ pc = "appliance_performance"
    /\ \E tr \in PerformanceTransports :
        LET r == jsonload(tr) IN
        /\ events' = Append(events, Event("get", "performance", i))
        /\ result' = Outcome(r)
        /\ IF r.ok /\ "perfScore" \in DOMAIN r.value
           THEN /\ perfscore' = r.value.perfScore
                /\ pc' = "appliance_uplink"
                /\ error' = error
           ELSE /\ perfscore' = perfscore
                /\ Abort(IF r.ok THEN "KeyError" ELSE r.exc)
    /\ UNCHANGED <<name, networks, inventory, appliances, devices, i, network,
                   device_info, device_name, uplinks, csvline, written, transport>>

AppliancePerformanceSkip ==
    /\ pc = "appliance_performance"
    /\ \E tr \in PerformanceTransports :
        LET r == jsonload(tr) IN
        /\ events' = Append(events, Event("get", "performance", i))
        /\ result' = Outcome(r)
        /\ perfscore' = Perfscore(r)
        /\ pc' = IF r.ok THEN "appliance_uplink" ELSE "for_appliance"
    /\ UNCHANGED <<error, name, networks, inventory, appliances, devices, i, network,
                   device_info, device_name, uplinks, csvline, written, transport>>

\* lines 124-128
AppliancePerformance ==
    /\ pc = "appliance_performance"
    /\ \E tr \in PerformanceTransports :
        LET r == jsonload(tr) IN
        /\ events' = Append(events, Event("get", "performance", i))
        /\ result' = Outcome(r)
        /\ perfscore' = Perfscore(r)
        /\ pc' = "appliance_uplink"
    /\ UNCHANGED <<error, name, networks, inventory, appliances, devices, i, network,
                   device_info, device_name, uplinks, csvline, written, transport>>

\* lines 129-174
ApplianceUplink ==
    /\ pc = "appliance_uplink"
    /\ \E tr \in ApplianceUplinkTransports :
        LET r == jsonload(tr) IN
        /\ result' = Outcome(r)
        /\ IF r.ok
           THEN /\ uplinks' = r.value
                /\ csvline' =
                       WithPerformance(
                           ApplianceCsvline(network, network.name, device_name,
                                            appliances[i], device_info,
                                            DispatchAll(EmptyUplinksInfo, r.value)),
                           perfscore)
                /\ written' = Append(written, [report |-> "appliances", idx |-> i])
                /\ events' = events \o <<Event("get", "uplink", i),
                                         Event("writerow", "appliances", i)>>
                /\ pc' = "for_appliance"
                /\ error' = error
           ELSE /\ events' = Append(events, Event("get", "uplink", i))
                /\ Abort(r.exc)
                /\ UNCHANGED <<uplinks, csvline, written>>
    /\ UNCHANGED <<name, networks, inventory, appliances, devices, i, network,
                   device_info, device_name, perfscore, transport>>

\* lines 175-184
OpenDevices ==
    /\ pc = "open_devices"
    /\ events' = events \o <<Event("close", "appliances", 0),
                             Event("open", "devices", 0)>>
    /\ i' = 0
    /\ pc' = "for_device"
    /\ UNCHANGED <<error, name, networks, inventory, appliances, devices, network,
                   device_info, device_name, perfscore, uplinks, csvline, written,
                   transport, result>>

\* line 187: the next device, or the end of the loop
ForDevice ==
    /\ pc = "for_device"
    /\ Forget
    /\ IF i < Len(devices)
       THEN /\ i' = i + 1
            /\ pc' = "device_info"
       ELSE /\ i' = i
            /\ pc' = "close_devices"
    /\ UNCHANGED <<error, name, networks, inventory, appliances, devices, written,
                   events, transport, result>>

\* lines 188-196
DeviceInfo ==
    /\ pc = "device_info"
    /\ LET device == devices[i]
           found == get_network(device.networkId, networks)
       IN
       IF ~found.ok
       THEN /\ Abort(found.exc)
            /\ UNCHANGED <<network, device_info, device_name, events, result>>
       ELSE /\ network' = found.value
            /\ \E tr \in Transports(DeviceResponses(device)) :
                LET r == jsonload(tr) IN
                /\ events' = Append(events, Event("get", "device", i))
                /\ result' = Outcome(r)
                /\ IF r.ok
                   THEN /\ device_info' = r.value
                        /\ device_name' = DeviceName(r.value)
                        /\ pc' = "device_uplink"
                        /\ error' = error
                   ELSE /\ UNCHANGED <<device_info, device_name>>
                        /\ Abort(r.exc)
    /\ UNCHANGED <<name, networks, inventory, appliances, devices, i, perfscore, uplinks,
                   csvline, written, transport>>

LastUplink(list) == list[Len(list)]

\* line 205: uplink = uplink[0]
FirstUplink(list) == list[1]

\* lines 197-223
DeviceUplink ==
    /\ pc = "device_uplink"
    /\ \E tr \in DeviceUplinkTransports :
        LET r == jsonload(tr) IN
        /\ result' = Outcome(r)
        /\ IF r.ok
           THEN /\ uplinks' = r.value
                /\ pc' = "for_device"
                /\ error' = error
                /\ IF r.value = <<>>
                   THEN /\ events' = Append(events, Event("get", "uplink", i))
                        /\ UNCHANGED <<csvline, written>>
                   ELSE /\ csvline' =
                               DeviceCsvline(network, network.name, device_name,
                                             devices[i],
                                             CopyKeys(FromKeys(DeviceKeys),
                                                      FirstUplink(r.value)))
                        /\ written' = Append(written, [report |-> "devices", idx |-> i])
                        /\ events' = events \o <<Event("get", "uplink", i),
                                                 Event("writerow", "devices", i)>>
           ELSE /\ events' = Append(events, Event("get", "uplink", i))
                /\ Abort(r.exc)
                /\ UNCHANGED <<uplinks, csvline, written>>
    /\ UNCHANGED <<name, networks, inventory, appliances, devices, i, network,
                   device_info, device_name, perfscore, transport>>

\* line 224
CloseDevices ==
    /\ pc = "close_devices"
    /\ events' = Append(events, Event("close", "devices", 0))
    /\ pc' = "done"
    /\ UNCHANGED <<error, name, networks, inventory, appliances, devices, i, network,
                   device_info, device_name, perfscore, uplinks, csvline, written,
                   transport, result>>

Next ==
    \/ Organization
    \/ Networks
    \/ Inventory
    \/ OpenAppliances
    \/ ForAppliance
    \/ ApplianceInfo
    \/ AppliancePerformance
    \/ ApplianceUplink
    \/ OpenDevices
    \/ ForDevice
    \/ DeviceInfo
    \/ DeviceUplink
    \/ CloseDevices

Spec == Init /\ [][Next]_vars

----------------------------------------------------------------------------
(* One call of jsonload, for every behaviour of the transport *)

TransportOutcomes ==
    {Raise(e) : e \in Caught \cup {"ReadTimeout"}}
    \cup {Text(EmptyText), Text(Garbage), Text(JsonText(<<>>)),
          Text(JsonText(<<Str("Q2XX-0001")>>))}

FetchTransports == UNION {[1..n -> TransportOutcomes] : n \in 1..(MaxFailures + 1)}

InitFetch ==
    /\ pc = "jsonload"
    /\ inventory = <<>>
    /\ transport \in FetchTransports
    /\ Unassigned

JsonloadCall ==
    /\ pc = "jsonload"
    /\ result' = jsonload(transport)
    /\ pc' = "returned"
    /\ UNCHANGED <<error, name, networks, inventory, appliances, devices, i, network,
                   device_info, device_name, perfscore, uplinks, csvline, written,
                   events, transport>>

SpecFetch == InitFetch /\ [][JsonloadCall]_vars

----------------------------------------------------------------------------
(* The partition, for every inventory listing *)

InitClassify ==
    /\ pc = "classify"
    /\ inventory \in Listings(AllDevices, MaxInventory)
    /\ transport = <<>>
    /\ Unassigned

Classify ==
    /\ pc = "classify"
    /\ appliances' = Appliances(inventory)
    /\ devices' = Devices(inventory, Appliances(inventory))
    /\ pc' = "classified"
    /\ UNCHANGED <<error, name, networks, inventory, i, network, device_info,
                   device_name, perfscore, uplinks, csvline, written, events, transport,
                   result>>

SpecClassify == InitClassify /\ [][Classify]_vars

----------------------------------------------------------------------------
(* Properties *)

\* the transport raises a caught exception on its first n attempts
FailsFirst(n) ==
    \A k \in 1..n : Attempt(transport, k).kind = "raise" /\ Attempt(transport, k).exc \in Caught

\* the transport fails len - 1 times, then answers with a JSON document
FailsThenAnswers ==
    /\ \A k \in 1..(Len(transport) - 1) :
          transport[k].kind = "raise" /\ transport[k].exc \in Caught
    /\ transport[Len(transport)].kind = "text"
    /\ transport[Len(transport)].text.body = "json"

C8_EmptyArrayAfterRetries ==
    (pc = "returned" /\ FailsFirst(3)) => (result.ok /\ result.value = <<>>)

IsAppliancePrefix(model) ==
    /\ Len(model) >= 2
    /\ <<model[1], model[2]>> \in {<<"M", "X">>, <<"Z", "1">>, <<"Z", "3">>, <<"v", "M">>}

\* C2: every inventory device with a network is in exactly one of appliances and
\* devices, in appliances iff its model starts with MX, Z1, Z3 or vM; a device without
\* a network is in neither; and the two hold nothing that is not in the inventory.
C2_Partition ==
    pc = "classified" =>
        /\ \A n \in 1..Len(inventory) :
              LET device == inventory[n] IN
              IF device.networkId.t = "null"
              THEN ~Contains(appliances, device) /\ ~Contains(devices, device)
              ELSE /\ Contains(appliances, device) <=> ~Contains(devices, device)
                   /\ Contains(appliances, device) <=> IsAppliancePrefix(device.model.v)
        /\ \A n \in 1..Len(appliances) : Contains(inventory, appliances[n])
        /\ \A n \in 1..Len(devices) : Contains(inventory, devices[n])

C2_Witness ==
    /\ pc = "classified"
    /\ Len(inventory) = 2
    /\ inventory[1].networkId.t = "null"
    /\ IsAppliancePrefix(inventory[1].model.v)
    /\ Len(appliances) = 0
    /\ Len(devices) = 1

\* the rows written for one device of one report
Rows(report, idx) ==
    Cardinality({n \in 1..Len(written) : written[n] = [report |-> report, idx |-> idx]})

InDevicesLoop == \E n \in 1..Len(events) : events[n] = Event("open", "devices", 0)

\* the value a row shows for a key of an uplink entry
Shown(entry, key) == IF key \in DOMAIN entry THEN Str(entry[key].v) ELSE None

\* C3: in the other-devices loop an empty uplink response writes no row and the loop
\* goes on; a non-empty one writes exactly one row whose uplink columns come from the
\* first entry alone.
C3_SkipLaw ==
    /\ (pc = "for_device" /\ i >= 1) =>
          IF uplinks = <<>>
          THEN Rows("devices", i) = 0 /\ DOMAIN csvline = {}
          ELSE /\ Rows("devices", i) = 1
               /\ csvline["Status"] = Shown(uplinks[1], "status")
               /\ csvline["IP"] = Shown(uplinks[1], "ip")
               /\ csvline["Gateway"] = Shown(uplinks[1], "gateway")
               /\ csvline["Public IP"] = Shown(uplinks[1], "publicIp")
               /\ csvline["DNS"] = Shown(uplinks[1], "dns")
               /\ csvline["VLAN"] = Shown(uplinks[1], "vlan")
               /\ csvline["Static"] = Shown(uplinks[1], "usingStaticIp")
    /\ (InDevicesLoop /\ result.ok /\ events[Len(events)] = Event("get", "uplink", i)) =>
          /\ pc \in {"for_device", "close_devices"}
          /\ pc = "for_device" => uplinks = <<>>
          /\ Rows("devices", i) = 0

\* the first device was skipped, the second wrote its row from a two-entry response
C3_Witness ==
    /\ pc = "for_device"
    /\ i = 2
    /\ written = <<[report |-> "devices", idx |-> 2]>>
    /\ uplinks = <<Down, Wired>>

Reported(label) == \E n \in 1..Len(uplinks) : uplinks[n].interface = Str(label)

\* C4: an appliance whose detail and uplink fetches succeed gets exactly one row, of
\* 27 columns, and the six columns of an interface the uplink response does not report
\* are blank.
C4_ApplianceCompleteness ==
    /\ (pc = "for_appliance" /\ i >= 1) =>
          LET row == Emit(ApplianceFieldnames, csvline) IN
          /\ Rows("appliances", i) = 1
          /\ Len(row) = 27
          /\ ~Reported("WAN 1") => \A n \in 9..14 : row[n] = ""
          /\ ~Reported("WAN 2") => \A n \in 15..20 : row[n] = ""
          /\ ~Reported("Cellular") => \A n \in 21..26 : row[n] = ""
    /\ (~InDevicesLoop /\ events # <<>> /\ events[Len(events)] = Event("get", "uplink", i))
          => ~result.ok

C4_Witness ==
    /\ pc = "for_appliance"
    /\ i = 1
    /\ uplinks = <<Wan3, Cellular>>
    /\ Rows("appliances", 1) = 1

\* C5: every value of every row handed to the row writer is a string.
C5_Stringification ==
    (pc \in {"for_appliance", "for_device"} /\ DOMAIN csvline # {}) =>
        \A k \in DOMAIN csvline : csvline[k].t = "str"

\* the device the running loop is at
Current == IF InDevicesLoop THEN devices[i] ELSE appliances[i]

\* the positions of the network records whose id is the device's networkId
MatchIdx(device) == {n \in 1..Len(networks) : networks[n].id = device.networkId}

Resolved == pc \in {"appliance_performance", "appliance_uplink", "device_uplink"}

\* the rows of the running loop's report for the current device or a later one
RowsFrom ==
    {n \in 1..Len(written) :
        /\ written[n].report = (IF InDevicesLoop THEN "devices" ELSE "appliances")
        /\ written[n].idx >= i}

\* the events since the running loop's report was opened
LoopEvents ==
    LET opens == {n \in 1..Len(events) : events[n].op = "open"}
        last == CHOOSE n \in opens : \A k \in opens : k <= n
    IN SubSeq(events, last + 1, Len(events))

\* C6 as the spec states it: a device is processed only when its networkId matches
\* exactly one network record; zero matches and several matches both abort the run.
C6_ExactlyOneMatch ==
    Resolved => Cardinality(MatchIdx(Current)) = 1

\* C6 as amended: a device whose networkId matches no network record aborts the run
\* with the lookup failure, before any request or row for it or any later device; a
\* device whose networkId matches several records resolves to the first of them and is
\* processed.
C6_NetworkLookup ==
    /\ Resolved =>
          /\ MatchIdx(Current) # {}
          /\ \E n \in MatchIdx(Current) :
                /\ network = networks[n]
                /\ \A k \in MatchIdx(Current) : n <= k
    /\ (pc = "abort" /\ i >= 1 /\ MatchIdx(Current) = {}) =>
          /\ error = "IndexError"
          /\ RowsFrom = {}
          /\ InDevicesLoop \/ \A n \in 1..Len(written) : written[n].report = "appliances"
          /\ \A n \in 1..Len(LoopEvents) : LoopEvents[n].idx < i
    /\ (pc = "abort" /\ error = "IndexError") => (i >= 1 /\ MatchIdx(Current) = {})

\* the second appliance has no network record, after the first wrote its row
C6_Witness ==
    /\ pc = "abort"
    /\ error = "IndexError"
    /\ i = 2
    /\ written = <<[report |-> "appliances", idx |-> 1]>>

\* C7: a failed performance fetch never ends the run: the program goes on to the
\* uplink fetch with no score, and the appliance's row is written once with a blank
\* Performance column.
C7_PerformanceFailure ==
    /\ (events # <<>> /\ events[Len(events)] = Event("get", "performance", i)) =>
          /\ pc = "appliance_uplink"
          /\ perfscore # Unset
          /\ ~result.ok => perfscore = None
    /\ (pc = "for_appliance" /\ i >= 1 /\ perfscore = None) =>
          /\ Rows("appliances", i) = 1
          /\ "Performance" \notin DOMAIN csvline
          /\ Emit(ApplianceFieldnames, csvline)[27] = ""

C7_Witness ==
    /\ pc = "appliance_uplink"
    /\ result = [ok |-> FALSE, exc |-> "JSONDecodeError"]
    /\ perfscore = None

\* the events of the appliance loop that belong to a device
ApplianceEvents ==
    LET opened == {n \in 1..Len(events) : events[n] = Event("open", "devices", 0)}
        last == IF opened = {} THEN Len(events) ELSE (CHOOSE n \in opened : TRUE) - 1
    IN SelectSeq(SubSeq(events, 1, last), LAMBDA e : e.idx >= 1)

\* the events are those of device 1, then of device 2, ..., each in the given order
InOrder(order) ==
    \A n \in 1..Len(ApplianceEvents) :
        ApplianceEvents[n] =
            [order[((n - 1) % 4) + 1] EXCEPT !.idx = ((n - 1) \div 4) + 1]

\* C9 as the spec states it: detail fetch, uplink fetch, performance fetch, row.
C9_DetailUplinkPerformanceRow ==
    InOrder(<<Event("get", "device", 0), Event("get", "uplink", 0),
              Event("get", "performance", 0), Event("writerow", "appliances", 0)>>)

\* C9 as amended: for every appliance the order is detail fetch, performance fetch,
\* uplink fetch, row, and all four are over before the next appliance's first request.
C9_ApplianceOrder ==
    InOrder(<<Event("get", "device", 0), Event("get", "performance", 0),
              Event("get", "uplink", 0), Event("writerow", "appliances", 0)>>)

C9_Witness ==
    /\ pc = "appliance_performance"
    /\ i = 2
    /\ Len(ApplianceEvents) = 5

\* C10: a failed organization fetch, or an organization without a name, exits with
\* the diagnostic after that one request, with no file opened and no row written; and
\* a file is opened only after the organization, networks and inventory fetches have
\* all succeeded, in that order.
C10_OrganizationGate ==
    /\ pc = "exit" =>
          /\ events = <<Event("get", "organization", 0)>>
          /\ written = <<>>
          /\ error = ExitMessage
    /\ (events = <<Event("get", "organization", 0)>> /\ (~result.ok \/ name = Unset)) =>
          pc = "exit"
    /\ pc = "networks" => (result.ok /\ name.t = "str")
    /\ pc = "inventory" => result.ok
    /\ pc = "open_appliances" => result.ok
    /\ \A n \in 1..Len(events) :
          events[n].op \in {"open", "writerow"} =>
              /\ n > 3
              /\ SubSeq(events, 1, 3) =
                    <<Event("get", "organization", 0), Event("get", "networks", 0),
                      Event("get", "inventory", 0)>>

C10_Witness ==
    /\ pc = "exit"
    /\ result = [ok |-> FALSE, exc |-> "JSONDecodeError"]
    /\ error = ExitMessage

====
